---- MODULE Spec2Model ----
(***************************************************************************)
(* Model of the toolset registry of k8s-mcp-server (pkg/toolsets), of the  *)
(* toolset initialisation (pkg/k8s InitToolsets, pkg/k8s/resources) and of *)
(* the read-only configuration (cmd/k8s-mcp-server loadEnvOverrides).      *)
(*                                                                         *)
(* A *Toolset is a pointer: the heap is the sequence of the toolset        *)
(* objects allocated so far, and a pointer is an index into it.  The group *)
(* stores pointers, so a toolset stays reachable by its creator after it   *)
(* was added to (or replaced in) the group.                                *)
(***************************************************************************)
EXTENDS Integers, Sequences, FiniteSets, TLC

VARIABLES
    heap,     \* the *Toolset objects allocated so far
    tg,       \* the ToolsetGroup
    written,  \* written[p]: the tools AddWriteTool was called with on toolset p
    allOn,    \* an EnableToolsets call with "all" in its list has returned nil
    ret,      \* the last call: its name, its toolset, its name list, its error
    calls,    \* the s.AddTool calls the last call issued, in order
    cfg,      \* the Config of main.go
    env,      \* the process environment read by loadEnvOverrides
    pc,       \* the position of main: "api" while the toolsets API is driven directly
    handlers, \* the names registered in the ResourceRegistry
    request,  \* the last tool call: the handler called, the request's arguments, the call's oracle
    result,   \* what the handler returned: the *mcp.CallToolResult and the error
    cluster,  \* the objects the Kubernetes API server holds
    apiCalls  \* the Kubernetes API requests the last tool call issued, in order

\* the state of the tool handlers
hvars == <<handlers, request, result, cluster, apiCalls>>

vars == <<heap, tg, written, allOn, ret, calls, cfg, env, pc, hvars>>

(* ------------------------------ bounds --------------------------------- *)

\* toolset objects allocated in the group-level specification
MaxObjs == 2
\* length of the name lists passed to EnableToolsets
MaxNames == 2
\* length of a toolset's read tool list and of its write tool list
MaxTools == 2

\* names NewToolset is called with
TsNames == {"ts1", "ts2"}
\* descriptions NewToolset is called with: every call is given a description
\* of its own, the k-th call the k-th of these
Descs == <<"d1", "d2", "d3", "d4">>
\* names passed to EnableToolset, EnableToolsets and IsEnabled
ArgNames == TsNames \cup {"all"}
\* tools passed to AddReadTool and AddWriteTool
Tools == {"t1", "t2"}

SeqsUpTo(S, n) == UNION {[1..k -> S] : k \in 0..n}

Range(s) == {s[i] : i \in 1..Len(s)}

(* --------------------------- Toolset (pure) ---------------------------- *)

\* toolsets.go NewToolset
NewToolset(name, description) ==
    [Name |-> name, Description |-> description, Enabled |-> FALSE,
     readOnly |-> FALSE, writeTools |-> <<>>, readTools |-> <<>>]

\* toolsets.go Toolset.GetActiveTools (a nil slice is the empty sequence)
GetActiveTools(t) ==
    IF t.Enabled
    THEN IF t.readOnly THEN t.readTools ELSE t.readTools \o t.writeTools
    ELSE <<>>

\* toolsets.go Toolset.GetAvailableTools
GetAvailableTools(t) ==
    IF t.readOnly THEN t.readTools ELSE t.readTools \o t.writeTools

\* mutant: the write tools are registered whatever readOnly says
Toolset_RegisterTools_IgnoreReadOnly(t) ==
    IF ~t.Enabled THEN <<>> ELSE t.readTools \o t.writeTools

\* toolsets.go Toolset.RegisterTools: the sequence of s.AddTool calls
Toolset_RegisterTools(t) ==
    IF ~t.Enabled
    THEN <<>>
    ELSE t.readTools \o (IF ~t.readOnly THEN t.writeTools ELSE <<>>)

\* toolsets.go Toolset.SetReadOnly
SetReadOnly(t) == [t EXCEPT !.readOnly = TRUE]

\* toolsets.go Toolset.AddReadTool
AddReadTool(t, tool) == [t EXCEPT !.readTools = Append(@, tool)]

\* toolsets.go Toolset.AddWriteTool
AddWriteTool(t, tool) ==
    IF ~t.readOnly THEN [t EXCEPT !.writeTools = Append(@, tool)] ELSE t

(* ------------------------- ToolsetGroup (pure) ------------------------- *)

\* toolsets.go NewToolsetGroup
NewToolsetGroup(readOnly) ==
    [Toolsets |-> <<>>, everythingOn |-> FALSE, readOnly |-> readOnly]

\* m[k] = v on a Go map
MapPut(m, k, v) == [x \in (DOMAIN m) \cup {k} |-> IF x = k THEN v ELSE m[x]]

\* mutant: the toolset is stored without SetReadOnly
AddToolset_NoSetReadOnly(g, h, p) ==
    [heap |-> h, tg |-> [g EXCEPT !.Toolsets = MapPut(@, h[p].Name, p)]]

\* mutant: an existing entry is kept
AddToolset_KeepExisting(g, h, p) ==
    LET h1 == IF g.readOnly THEN [h EXCEPT ![p] = SetReadOnly(@)] ELSE h
    IN [heap |-> h1,
        tg |-> IF h1[p].Name \in DOMAIN g.Toolsets
               THEN g
               ELSE [g EXCEPT !.Toolsets = MapPut(@, h1[p].Name, p)]]

\* toolsets.go ToolsetGroup.AddToolset, on the group g, the heap h and the
\* pointer p: the new heap and the new group
AddToolset(g, h, p) ==
    LET h1 == IF g.readOnly THEN [h EXCEPT ![p] = SetReadOnly(@)] ELSE h
    IN [heap |-> h1,
        tg |-> [g EXCEPT !.Toolsets = MapPut(@, h1[p].Name, p)]]

\* mutant: everythingOn is not consulted
IsEnabled_NoEverythingOn(g, h, name) ==
    IF name \notin DOMAIN g.Toolsets THEN FALSE ELSE h[g.Toolsets[name]].Enabled

\* toolsets.go ToolsetGroup.IsEnabled
IsEnabled(g, h, name) ==
    IF g.everythingOn
    THEN TRUE
    ELSE IF name \notin DOMAIN g.Toolsets
         THEN FALSE
         ELSE h[g.Toolsets[name]].Enabled

\* mutant: a missing toolset is no error
EnableToolset_NoExistCheck(g, h, name) ==
    IF name \notin DOMAIN g.Toolsets
    THEN [err |-> FALSE, heap |-> h]
    ELSE [err |-> FALSE, heap |-> [h EXCEPT ![g.Toolsets[name]].Enabled = TRUE]]

\* toolsets.go ToolsetGroup.EnableToolset: the error flag and the new heap
EnableToolset(g, h, name) ==
    IF name \notin DOMAIN g.Toolsets
    THEN [err |-> TRUE, heap |-> h]
    ELSE [err |-> FALSE, heap |-> [h EXCEPT ![g.Toolsets[name]].Enabled = TRUE]]

\* mutant: the second loop enables nothing
EnableEvery_Nothing(g, h) == h

\* the second loop of EnableToolsets: every toolset of the map is enabled (the
\* names exist, so no call fails and the iteration order does not matter)
EnableEvery(g, h) ==
    [p \in DOMAIN h |->
        IF \E n \in DOMAIN g.Toolsets : g.Toolsets[n] = p
        THEN [h[p] EXCEPT !.Enabled = TRUE]
        ELSE h[p]]

\* the first loop of EnableToolsets over names[i..]: stops at "all" (break) and
\* at the first failing EnableToolset (return err)
RECURSIVE EnableLoop(_, _, _, _)
EnableLoop(g, h, names, i) ==
    IF i > Len(names)
    THEN [err |-> FALSE, heap |-> h, everythingOn |-> g.everythingOn]
    ELSE IF names[i] = "all"
         THEN [err |-> FALSE, heap |-> h, everythingOn |-> TRUE]
         ELSE LET r == EnableToolset(g, h, names[i])
              IN IF r.err
                 THEN [err |-> TRUE, heap |-> r.heap, everythingOn |-> g.everythingOn]
                 ELSE EnableLoop(g, r.heap, names, i + 1)

\* mutant: only the first name of the list is enabled
EnableToolsets_FirstOnly(g, h, names) ==
    LET r == EnableLoop(g, h, IF names = <<>> THEN names ELSE <<names[1]>>, 1)
    IN IF r.err
       THEN r
       ELSE IF r.everythingOn
            THEN [r EXCEPT !.heap = EnableEvery(g, r.heap)]
            ELSE r

\* toolsets.go ToolsetGroup.EnableToolsets: the error flag, the new heap and
\* the new everythingOn
EnableToolsets(g, h, names) ==
    LET r == EnableLoop(g, h, names, 1)
    IN IF r.err
       THEN r
       ELSE IF r.everythingOn
            THEN [r EXCEPT !.heap = EnableEvery(g, r.heap)]
            ELSE r

RECURSIVE Concat(_)
Concat(ss) == IF ss = <<>> THEN <<>> ELSE Head(ss) \o Concat(Tail(ss))

\* toolsets.go ToolsetGroup.RegisterTools with the map iterated in order o: the
\* sequence of s.AddTool calls
ToolsetGroup_RegisterTools(g, h, o) ==
    Concat([i \in 1..Len(o) |-> Toolset_RegisterTools(h[g.Toolsets[o[i]]])])

(* ---------------- resource handlers and InitToolsets ------------------- *)

\* pod/tool.go Handler.RegisterTools
Pod_RegisterTools(t) ==
    AddWriteTool(AddReadTool(AddReadTool(t, "get_pod"), "list_pods"), "delete_pod")

\* deployment/tool.go Handler.RegisterTools
Deployment_RegisterTools(t) ==
    AddWriteTool(AddReadTool(AddReadTool(t, "get_deployment"), "list_deployments"),
                 "scale_deployment")

\* the service handler's RegisterTools: its Get and List tools are read tools
Service_RegisterTools(t) ==
    AddReadTool(AddReadTool(t, "get_service"), "list_services")

\* the configmap handler's RegisterTools
ConfigMap_RegisterTools(t) ==
    AddReadTool(AddReadTool(t, "get_configmap"), "list_configmaps")

\* the namespace handler's RegisterTools
Namespace_RegisterTools(t) == AddReadTool(t, "list_namespaces")

\* node/tool.go Handler.RegisterTools
Node_RegisterTools(t) == AddReadTool(AddReadTool(t, "get_node"), "list_nodes")

\* the keys of resourceMap in RegisterSelectedK8sResources, which are the
\* names RegisterAllK8sResources registers
ResourceNames == {"pod", "deployment", "service", "configmap", "namespace", "node"}

\* handler.RegisterTools(toolset) of the handler registered under name
Handler_RegisterTools(name, t) ==
    CASE name = "pod" -> Pod_RegisterTools(t)
      [] name = "deployment" -> Deployment_RegisterTools(t)
      [] name = "service" -> Service_RegisterTools(t)
      [] name = "configmap" -> ConfigMap_RegisterTools(t)
      [] name = "namespace" -> Namespace_RegisterTools(t)
      [] name = "node" -> Node_RegisterTools(t)

\* registry.go RegisterAllK8sResources: the registry is the set of the names
\* that have a handler
RegisterAllK8sResources(registry) == registry \cup ResourceNames

\* registry.go RegisterSelectedK8sResources over resourceTypes[i..]
RECURSIVE RegisterSelectedK8sResources(_, _, _)
RegisterSelectedK8sResources(registry, resourceTypes, i) ==
    IF i > Len(resourceTypes)
    THEN registry
    ELSE RegisterSelectedK8sResources(
             IF resourceTypes[i] \in ResourceNames
             THEN registry \cup {resourceTypes[i]}
             ELSE registry,
             resourceTypes, i + 1)

\* mutant: only the first element is compared
contains_FirstOnly(slice, item) == slice # <<>> /\ Head(slice) = item

\* contains of InitToolsets
RECURSIVE contains(_, _)
contains(slice, item) ==
    IF slice = <<>> THEN FALSE
    ELSE IF Head(slice) = item THEN TRUE ELSE contains(Tail(slice), item)

\* the registry InitToolsets builds from enabledResourceTypes
InitRegistry(enabledResourceTypes) ==
    IF Len(enabledResourceTypes) = 0 \/ contains(enabledResourceTypes, "all")
    THEN RegisterAllK8sResources({})
    ELSE RegisterSelectedK8sResources({}, enabledResourceTypes, 1)

\* the orders in which a Go map with key set S can be iterated: any
RECURSIVE Perms(_)
Perms(S) ==
    IF S = {} THEN {<<>>}
    ELSE UNION {{<<x>> \o q : q \in Perms(S \ {x})} : x \in S}

\* the loop of CreateToolset over the handlers in the order o[i..]
RECURSIVE RegisterHandlers(_, _, _)
RegisterHandlers(t, o, i) ==
    IF i > Len(o) THEN t
    ELSE RegisterHandlers(Handler_RegisterTools(o[i], t), o, i + 1)

\* registry.go CreateToolset, the registry's map iterated in the order o
CreateToolset(o, name) ==
    RegisterHandlers(NewToolset(name, "K8s resources related tools"), o, 1)

\* mutant: the toolset group is created writable whatever readOnly says
InitToolsets_IgnoreReadOnly(passedToolsets, readOnly, enabledResourceTypes, o) ==
    LET tsg == NewToolsetGroup(FALSE)
        resourcesToolset == CreateToolset(o, "k8s_resources")
        added == AddToolset(tsg, <<resourcesToolset>>, 1)
        r == EnableToolsets(added.tg, added.heap, passedToolsets)
    IN [err |-> r.err,
        heap |-> r.heap,
        tg |-> [added.tg EXCEPT !.everythingOn = r.everythingOn]]

\* InitToolsets, the registry's map iterated in the order o: the error flag
\* and, when there is no error, the group and its toolset
InitToolsets(passedToolsets, readOnly, enabledResourceTypes, o) ==
    LET tsg == NewToolsetGroup(readOnly)
        resourcesToolset == CreateToolset(o, "k8s_resources")
        added == AddToolset(tsg, <<resourcesToolset>>, 1)
        r == EnableToolsets(added.tg, added.heap, passedToolsets)
    IN [err |-> r.err,
        heap |-> r.heap,
        tg |-> [added.tg EXCEPT !.everythingOn = r.everythingOn]]

(* -------------------------- loadEnvOverrides --------------------------- *)

\* os.LookupEnv: the value and whether the variable exists
Unset == [exists |-> FALSE, val |-> ""]
Set(v) == [exists |-> TRUE, val |-> v]

\* strings.ToLower on the strings K8S_MCP_READ_ONLY is given here
ToLower(str) ==
    CASE str = "TRUE" -> "true"
      [] str = "True" -> "true"
      [] str = "FALSE" -> "false"
      [] OTHER -> str

\* A list-valued variable is the sequence of its words and of the commas
\* between them: "pod,deployment" is <<"pod", ",", "deployment">>, "" is <<>>.
\* strings.Split(val, ","): the words between the commas, "" where there is none
RECURSIVE Split(_)
Split(val) ==
    IF val = <<>> THEN <<"">>
    ELSE IF Head(val) = ","
         THEN <<"">> \o Split(Tail(val))
         ELSE IF Len(val) = 1
              THEN <<Head(val)>>
              ELSE <<Head(val)>> \o Split(Tail(Tail(val)))

\* main.go loadEnvOverrides, on the feature flags of Config
loadEnvOverrides(c, e) ==
    LET c1 == IF e.READ_ONLY.exists
              THEN [c EXCEPT !.ReadOnly =
                       (ToLower(e.READ_ONLY.val) = "true" \/ e.READ_ONLY.val = "1")]
              ELSE c
        c2 == IF e.RESOURCE_TYPES.exists /\ e.RESOURCE_TYPES.val # <<>>
              THEN [c1 EXCEPT !.EnabledResources = Split(e.RESOURCE_TYPES.val)]
              ELSE c1
    IN IF e.TOOLSETS.exists /\ e.TOOLSETS.val # <<>>
       THEN [c2 EXCEPT !.EnabledToolsets = Split(e.TOOLSETS.val)]
       ELSE c2

(* ------------------------- parameter helpers --------------------------- *)
(* An argument of a request is a Go value behind interface{}: its dynamic   *)
(* type and its value. A float64 is its whole part and its fraction in      *)
(* tenths, so that 2.5 is Float(2, 5); a float64 above the int32 range is   *)
(* Beyond(n), which stands for MaxInt32 + n.                                *)

Value(type, str, num, frac, over, bool) ==
    [type |-> type, str |-> str, num |-> num, frac |-> frac, over |-> over, bool |-> bool]

Str(v) == Value("string", v, 0, 0, FALSE, FALSE)
Float(whole, tenths) == Value("float64", "", whole, tenths, FALSE, FALSE)
Beyond(n) == Value("float64", "", n, 0, TRUE, FALSE)
Int64(v) == Value("int64", "", v, 0, FALSE, FALSE)
Bool(v) == Value("bool", "", 0, 0, FALSE, v)

\* the zero value of the type T
Zero(T) ==
    CASE T = "string" -> Str("")
      [] T = "float64" -> Float(0, 0)
      [] T = "int64" -> Int64(0)
      [] T = "bool" -> Bool(FALSE)

\* v > 0 for a number v
Positive(v) == v.over \/ v.num > 0 \/ (v.num = 0 /\ v.frac > 0)

\* what a parameter helper returns: the value, whether the parameter exists,
\* and the error's text (<<>> is the nil error)
Param(value, ok, err) == [value |-> value, ok |-> ok, err |-> err]

\* mutant: the zero value is accepted
RequiredParam_ZeroAccepted(args, p, T) ==
    IF p \notin DOMAIN args
    THEN Param(Zero(T), FALSE, <<"missing required parameter: ", p>>)
    ELSE IF args[p].type # T
         THEN Param(Zero(T), TRUE, <<"parameter ", p, " is not of type ", T>>)
         ELSE Param(args[p], TRUE, <<>>)

\* RequiredParam[T](request, p): the argument has to exist, to be a T and not to
\* be the zero value of T
RequiredParam(args, p, T) ==
    IF p \notin DOMAIN args
    THEN Param(Zero(T), FALSE, <<"missing required parameter: ", p>>)
    ELSE IF args[p].type # T
         THEN Param(Zero(T), TRUE, <<"parameter ", p, " is not of type ", T>>)
         ELSE IF args[p] = Zero(T)
              THEN Param(Zero(T), TRUE, <<"missing required parameter: ", p>>)
              ELSE Param(args[p], TRUE, <<>>)

\* mutant: an argument of another type counts as absent
OptionalParamOK_WrongTypeAbsent(args, p, T) ==
    IF p \notin DOMAIN args \/ args[p].type # T
    THEN Param(Zero(T), FALSE, <<>>)
    ELSE Param(args[p], TRUE, <<>>)

\* OptionalParamOK[T](request, p): ok says that the argument exists
OptionalParamOK(args, p, T) ==
    IF p \notin DOMAIN args
    THEN Param(Zero(T), FALSE, <<>>)
    ELSE IF args[p].type # T
         THEN Param(Zero(T), TRUE,
                    <<"parameter ", p, " is not of type ", T, ", is ", args[p].type>>)
         ELSE Param(args[p], TRUE, <<>>)

\* OptionalParam[T](request, p): the value and the error of OptionalParamOK
OptionalParam(args, p, T) ==
    LET r == OptionalParamOK(args, p, T)
    IN [value |-> r.value, err |-> r.err]

(* ------------------------- Kubernetes API server ----------------------- *)
(* The cluster is the set of the objects the API server holds. An oracle   *)
(* says, for one tool call, whether getClient succeeds and whether the API *)
(* server serves the first and the second request of the call.             *)

Object(kind, namespace, name, replicas) ==
    [kind |-> kind, namespace |-> namespace, name |-> name, replicas |-> replicas]

\* the objects of a kind with this namespace and name
Named(c, kind, namespace, name) ==
    {x \in c : x.kind = kind /\ x.namespace = namespace /\ x.name = name}

\* a request to the API server
ApiCall(verb, kind, namespace, name, opts) ==
    [verb |-> verb, kind |-> kind, namespace |-> namespace, name |-> name, opts |-> opts]

\* what the API server answers: the error ("" is none), the objects returned, the
\* objects it holds afterwards
Answer(err, objs, c) == [err |-> err, objs |-> objs, cluster |-> c]

\* Get of client-go
ApiGet(c, kind, namespace, name, served) ==
    IF ~served THEN Answer("server error", {}, c)
    ELSE IF Named(c, kind, namespace, name) = {}
         THEN Answer("not found", {}, c)
         ELSE Answer("", Named(c, kind, namespace, name), c)

\* List of client-go: the objects of the kind in the namespace ("" is all namespaces)
ApiList(c, kind, namespace, served) ==
    IF ~served THEN Answer("server error", {}, c)
    ELSE Answer("", {x \in c : x.kind = kind /\ (namespace = "" \/ x.namespace = namespace)}, c)

\* Delete of client-go
ApiDelete(c, kind, namespace, name, served) ==
    IF ~served THEN Answer("server error", {}, c)
    ELSE IF Named(c, kind, namespace, name) = {}
         THEN Answer("not found", {}, c)
         ELSE Answer("", {}, c \ Named(c, kind, namespace, name))

\* Update of client-go with the object obj
ApiUpdate(c, obj, served) ==
    IF ~served THEN Answer("server error", {}, c)
    ELSE IF Named(c, obj.kind, obj.namespace, obj.name) = {}
         THEN Answer("not found", {}, c)
         ELSE Answer("", {obj}, (c \ Named(c, obj.kind, obj.namespace, obj.name)) \cup {obj})

(* ---------------------------- tool results ----------------------------- *)

\* return mcp.NewToolResultError(text), nil
NewToolResultError(text) == [result |-> "error", text |-> text, err |-> <<>>]

\* return mcp.NewToolResultText(text), nil
NewToolResultText(text) == [result |-> "text", text |-> text, err |-> <<>>]

\* return nil, fmt.Errorf(...)
ReturnError(err) == [result |-> "nil", text |-> <<>>, err |-> err]

\* string(r) for r, err := json.Marshal(objs), which does not fail on API objects
Marshal(objs) == <<"json", objs>>

\* mutant: every request is sent a second time
Done_Retried(r, issued, c) == [result |-> r, calls |-> issued \o issued, cluster |-> c]

\* what a handler has done when it returns: its result, the API requests it
\* issued, the cluster afterwards
Done(r, issued, c) == [result |-> r, calls |-> issued, cluster |-> c]

\* fmt.Sprintf("failed to <op> <noun>: %v", err)
Failed(op, noun, cause) == <<"failed to ", op, " ", noun, ": ", cause>>

(* ---------------------------- tool handlers ---------------------------- *)
(* A handler is called with the request's arguments args, the cluster c    *)
(* and the oracle o of the call.                                           *)

NoOpts == [FieldSelector |-> "", LabelSelector |-> ""]

ClientError == <<"failed to get Kubernetes client: ", "no client">>

\* mutant: the client is fetched before the parameters are read
GetNamespaced_ClientFirst(kind, args, c, o) ==
    LET namespace == RequiredParam(args, "namespace", "string")
        name == RequiredParam(args, "name", "string")
        a == ApiGet(c, kind, namespace.value.str, name.value.str, o.api1)
        issued == <<ApiCall("get", kind, namespace.value.str, name.value.str, NoOpts)>>
    IN IF ~o.client THEN Done(ReturnError(ClientError), <<>>, c)
       ELSE IF namespace.err # <<>> THEN Done(NewToolResultError(namespace.err), <<>>, c)
       ELSE IF name.err # <<>> THEN Done(NewToolResultError(name.err), <<>>, c)
       ELSE IF a.err # "" THEN Done(NewToolResultError(Failed("get", kind, a.err)), issued, c)
       ELSE Done(NewToolResultText(Marshal(a.objs)), issued, a.cluster)

\* the handlers that get one namespaced object: required namespace and name,
\* getClient, one Get, the object as JSON
GetNamespaced(kind, args, c, o) ==
    LET namespace == RequiredParam(args, "namespace", "string")
        name == RequiredParam(args, "name", "string")
        a == ApiGet(c, kind, namespace.value.str, name.value.str, o.api1)
        issued == <<ApiCall("get", kind, namespace.value.str, name.value.str, NoOpts)>>
    IN IF namespace.err # <<>> THEN Done(NewToolResultError(namespace.err), <<>>, c)
       ELSE IF name.err # <<>> THEN Done(NewToolResultError(name.err), <<>>, c)
       ELSE IF ~o.client THEN Done(ReturnError(ClientError), <<>>, c)
       ELSE IF a.err # "" THEN Done(NewToolResultError(Failed("get", kind, a.err)), issued, c)
       ELSE Done(NewToolResultText(Marshal(a.objs)), issued, a.cluster)

\* the handlers that list the objects of a namespace: required namespace,
\* optional selectors, getClient, one List, the list as JSON
ListNamespaced(kind, plural, args, c, o) ==
    LET namespace == RequiredParam(args, "namespace", "string")
        fieldSelector == OptionalParam(args, "fieldSelector", "string")
        labelSelector == OptionalParam(args, "labelSelector", "string")
        options == [FieldSelector |-> fieldSelector.value.str,
                    LabelSelector |-> labelSelector.value.str]
        a == ApiList(c, kind, namespace.value.str, o.api1)
        issued == <<ApiCall("list", kind, namespace.value.str, "", options)>>
    IN IF namespace.err # <<>> THEN Done(NewToolResultError(namespace.err), <<>>, c)
       ELSE IF fieldSelector.err # <<>> THEN Done(NewToolResultError(fieldSelector.err), <<>>, c)
       ELSE IF labelSelector.err # <<>> THEN Done(NewToolResultError(labelSelector.err), <<>>, c)
       ELSE IF ~o.client THEN Done(ReturnError(ClientError), <<>>, c)
       ELSE IF a.err # "" THEN Done(NewToolResultError(Failed("list", plural, a.err)), issued, c)
       ELSE Done(NewToolResultText(Marshal(a.objs)), issued, a.cluster)

\* the handlers that list cluster-wide objects: optional selectors, getClient,
\* one List, the list as JSON
ListClusterWide(kind, plural, args, c, o) ==
    LET fieldSelector == OptionalParam(args, "fieldSelector", "string")
        labelSelector == OptionalParam(args, "labelSelector", "string")
        options == [FieldSelector |-> fieldSelector.value.str,
                    LabelSelector |-> labelSelector.value.str]
        a == ApiList(c, kind, "", o.api1)
        issued == <<ApiCall("list", kind, "", "", options)>>
    IN IF fieldSelector.err # <<>> THEN Done(NewToolResultError(fieldSelector.err), <<>>, c)
       ELSE IF labelSelector.err # <<>> THEN Done(NewToolResultError(labelSelector.err), <<>>, c)
       ELSE IF ~o.client THEN Done(ReturnError(ClientError), <<>>, c)
       ELSE IF a.err # "" THEN Done(NewToolResultError(Failed("list", plural, a.err)), issued, c)
       ELSE Done(NewToolResultText(Marshal(a.objs)), issued, a.cluster)

GetPod(args, c, o) == GetNamespaced("pod", args, c, o)
ListPods(args, c, o) == ListNamespaced("pod", "pods", args, c, o)
GetDeployment(args, c, o) == GetNamespaced("deployment", args, c, o)
ListDeployments(args, c, o) == ListNamespaced("deployment", "deployments", args, c, o)
GetService(args, c, o) == GetNamespaced("service", args, c, o)
ListServices(args, c, o) == ListNamespaced("service", "services", args, c, o)
GetConfigMap(args, c, o) == GetNamespaced("configmap", args, c, o)
ListConfigMaps(args, c, o) == ListNamespaced("configmap", "configmaps", args, c, o)
ListNamespaces(args, c, o) == ListClusterWide("namespace", "namespaces", args, c, o)
ListNodes(args, c, o) == ListClusterWide("node", "nodes", args, c, o)

\* mutant: a failure of the API request is returned as the handler's error
Node_Get_ApiErrorReturned(args, c, o) ==
    LET name == RequiredParam(args, "name", "string")
        a == ApiGet(c, "node", "", name.value.str, o.api1)
        issued == <<ApiCall("get", "node", "", name.value.str, NoOpts)>>
    IN IF name.err # <<>> THEN Done(NewToolResultError(name.err), <<>>, c)
       ELSE IF ~o.client THEN Done(ReturnError(ClientError), <<>>, c)
       ELSE IF a.err # "" THEN Done(ReturnError(Failed("get", "node", a.err)), issued, c)
       ELSE Done(NewToolResultText(Marshal(a.objs)), issued, a.cluster)

\* node/tool.go Handler.Get
Node_Get(args, c, o) ==
    LET name == RequiredParam(args, "name", "string")
        a == ApiGet(c, "node", "", name.value.str, o.api1)
        issued == <<ApiCall("get", "node", "", name.value.str, NoOpts)>>
    IN IF name.err # <<>> THEN Done(NewToolResultError(name.err), <<>>, c)
       ELSE IF ~o.client THEN Done(ReturnError(ClientError), <<>>, c)
       ELSE IF a.err # "" THEN Done(NewToolResultError(Failed("get", "node", a.err)), issued, c)
       ELSE Done(NewToolResultText(Marshal(a.objs)), issued, a.cluster)

\* pod/tool.go Handler.Delete: no grace period
Pod_Delete(args, c, o) ==
    LET namespace == RequiredParam(args, "namespace", "string")
        name == RequiredParam(args, "name", "string")
        deleteOptions == [GracePeriodSeconds |-> {}]
        a == ApiDelete(c, "pod", namespace.value.str, name.value.str, o.api1)
        issued == <<ApiCall("delete", "pod", namespace.value.str, name.value.str, deleteOptions)>>
    IN IF namespace.err # <<>> THEN Done(NewToolResultError(namespace.err), <<>>, c)
       ELSE IF name.err # <<>> THEN Done(NewToolResultError(name.err), <<>>, c)
       ELSE IF ~o.client THEN Done(ReturnError(ClientError), <<>>, c)
       ELSE IF a.err # "" THEN Done(NewToolResultError(Failed("delete", "pod", a.err)), issued, c)
       ELSE Done(NewToolResultText(<<"Pod ", name.value.str, " in namespace ",
                                     namespace.value.str, " deleted">>),
                 issued, a.cluster)

\* resources.go DeletePod (and Handler.Delete of the pod package that knows
\* gracePeriodSeconds): the grace period is an optional int64; a nil
\* *int64 is the empty set
DeletePod(args, c, o) ==
    LET namespace == RequiredParam(args, "namespace", "string")
        name == RequiredParam(args, "name", "string")
        gracePeriodSeconds == OptionalParam(args, "gracePeriodSeconds", "int64")
        deleteOptions == [GracePeriodSeconds |->
                             IF Positive(gracePeriodSeconds.value)
                             THEN {gracePeriodSeconds.value.num}
                             ELSE {}]
        a == ApiDelete(c, "pod", namespace.value.str, name.value.str, o.api1)
        issued == <<ApiCall("delete", "pod", namespace.value.str, name.value.str, deleteOptions)>>
    IN IF namespace.err # <<>> THEN Done(NewToolResultError(namespace.err), <<>>, c)
       ELSE IF name.err # <<>> THEN Done(NewToolResultError(name.err), <<>>, c)
       ELSE IF gracePeriodSeconds.err # <<>>
            THEN Done(NewToolResultError(gracePeriodSeconds.err), <<>>, c)
       ELSE IF ~o.client THEN Done(ReturnError(ClientError), <<>>, c)
       ELSE IF a.err # "" THEN Done(NewToolResultError(Failed("delete", "pod", a.err)), issued, c)
       ELSE Done(NewToolResultText(<<"Pod ", name.value.str, " in namespace ",
                                     namespace.value.str, " deleted successfully">>),
                 issued, a.cluster)

\* the range of int32
MaxInt32 == 2147483647
MinInt32 == -MaxInt32 - 1

\* int32(f) for a float64 f: the whole part when it is an int32; Go leaves the
\* result to the implementation otherwise, and the oracle says which it is
Int32(f, o) == IF f.over THEN o.int32 ELSE f.num

\* mutant: the fraction is not compared
Differs_WholePartOnly(i, f) == f.over \/ i # f.num

\* float64(i) != f for an int32 i
Differs(i, f) == f.over \/ f.frac # 0 \/ i # f.num

\* mutant: the deployment is not read; an object of the requested size is
\* submitted to Update
ScaleDeployment_BlindUpdate(args, c, o) ==
    LET namespace == RequiredParam(args, "namespace", "string")
        name == RequiredParam(args, "name", "string")
        replicasFloat == RequiredParam(args, "replicas", "float64")
        replicas == Int32(replicasFloat.value, o)
        deployment == Object("deployment", namespace.value.str, name.value.str, replicas)
        u == ApiUpdate(c, deployment, o.api2)
        update == ApiCall("update", "deployment", namespace.value.str, name.value.str,
                          [Replicas |-> replicas])
    IN IF namespace.err # <<>> THEN Done(NewToolResultError(namespace.err), <<>>, c)
       ELSE IF name.err # <<>> THEN Done(NewToolResultError(name.err), <<>>, c)
       ELSE IF replicasFloat.err # <<>> THEN Done(NewToolResultError(replicasFloat.err), <<>>, c)
       ELSE IF Differs(replicas, replicasFloat.value)
            THEN Done(NewToolResultError(<<"replicas must be an integer">>), <<>>, c)
       ELSE IF ~o.client THEN Done(ReturnError(ClientError), <<>>, c)
       ELSE IF u.err # ""
            THEN Done(NewToolResultError(Failed("scale", "deployment", u.err)),
                      <<update>>, c)
       ELSE Done(NewToolResultText(Marshal(u.objs)), <<update>>, u.cluster)

\* resources.go ScaleDeployment and deployment/tool.go Handler.Scale
ScaleDeployment(args, c, o) ==
    LET namespace == RequiredParam(args, "namespace", "string")
        name == RequiredParam(args, "name", "string")
        replicasFloat == RequiredParam(args, "replicas", "float64")
        replicas == Int32(replicasFloat.value, o)
        g == ApiGet(c, "deployment", namespace.value.str, name.value.str, o.api1)
        get == ApiCall("get", "deployment", namespace.value.str, name.value.str, NoOpts)
        deployment == [(CHOOSE x \in g.objs : TRUE) EXCEPT !.replicas = replicas]
        u == ApiUpdate(g.cluster, deployment, o.api2)
        update == ApiCall("update", "deployment", namespace.value.str, name.value.str,
                          [Replicas |-> replicas])
    IN IF namespace.err # <<>> THEN Done(NewToolResultError(namespace.err), <<>>, c)
       ELSE IF name.err # <<>> THEN Done(NewToolResultError(name.err), <<>>, c)
       ELSE IF replicasFloat.err # <<>> THEN Done(NewToolResultError(replicasFloat.err), <<>>, c)
       ELSE IF Differs(replicas, replicasFloat.value)
            THEN Done(NewToolResultError(<<"replicas must be an integer">>), <<>>, c)
       ELSE IF ~o.client THEN Done(ReturnError(ClientError), <<>>, c)
       ELSE IF g.err # ""
            THEN Done(NewToolResultError(Failed("get", "deployment", g.err)), <<get>>, c)
       ELSE IF u.err # ""
            THEN Done(NewToolResultError(Failed("scale", "deployment", u.err)),
                      <<get, update>>, c)
       ELSE Done(NewToolResultText(Marshal(u.objs)), <<get, update>>, u.cluster)

\* resources.go GetPodLogs: one GetLogs request, whose stream is then read
GetPodLogs(args, c, o) ==
    LET namespace == RequiredParam(args, "namespace", "string")
        name == RequiredParam(args, "name", "string")
        container == OptionalParam(args, "container", "string")
        tailLinesFloat == OptionalParam(args, "tailLines", "float64")
        previous == OptionalParam(args, "previous", "bool")
        podLogOptions == [Previous |-> previous.value.bool,
                          Container |-> container.value.str,
                          TailLines |-> IF Positive(tailLinesFloat.value)
                                        THEN {tailLinesFloat.value.num}
                                        ELSE {}]
        a == ApiGet(c, "pod", namespace.value.str, name.value.str, o.api1)
        issued == <<ApiCall("logs", "pod", namespace.value.str, name.value.str, podLogOptions)>>
    IN IF namespace.err # <<>> THEN Done(NewToolResultError(namespace.err), <<>>, c)
       ELSE IF name.err # <<>> THEN Done(NewToolResultError(name.err), <<>>, c)
       ELSE IF container.err # <<>> THEN Done(NewToolResultError(container.err), <<>>, c)
       ELSE IF tailLinesFloat.err # <<>>
            THEN Done(NewToolResultError(tailLinesFloat.err), <<>>, c)
       ELSE IF previous.err # <<>> THEN Done(NewToolResultError(previous.err), <<>>, c)
       ELSE IF ~o.client THEN Done(ReturnError(ClientError), <<>>, c)
       ELSE IF a.err # ""
            THEN Done(NewToolResultError(Failed("get", "pod logs", a.err)), issued, c)
       ELSE IF ~o.read
            THEN Done(NewToolResultError(Failed("read", "logs", "read error")), issued, c)
       ELSE Done(NewToolResultText(<<"logs of ", name.value.str>>), issued, a.cluster)

\* the tools and their handlers
ToolNames == {"get_pod", "list_pods", "delete_pod", "get_pod_logs", "get_deployment",
              "list_deployments", "scale_deployment", "get_service", "list_services",
              "get_configmap", "list_configmaps", "list_namespaces", "get_node",
              "list_nodes"}

\* the handlers of the pod package: the Delete that knows gracePeriodSeconds
\* and the Delete that does not
HandlerNames == ToolNames \cup {"delete_pod (no grace period)"}

\* the handler h called with args
Handle(h, args, c, o) ==
    CASE h = "get_pod" -> GetPod(args, c, o)
      [] h = "list_pods" -> ListPods(args, c, o)
      [] h = "delete_pod" -> DeletePod(args, c, o)
      [] h = "delete_pod (no grace period)" -> Pod_Delete(args, c, o)
      [] h = "get_pod_logs" -> GetPodLogs(args, c, o)
      [] h = "get_deployment" -> GetDeployment(args, c, o)
      [] h = "list_deployments" -> ListDeployments(args, c, o)
      [] h = "scale_deployment" -> ScaleDeployment(args, c, o)
      [] h = "get_service" -> GetService(args, c, o)
      [] h = "list_services" -> ListServices(args, c, o)
      [] h = "get_configmap" -> GetConfigMap(args, c, o)
      [] h = "list_configmaps" -> ListConfigMaps(args, c, o)
      [] h = "list_namespaces" -> ListNamespaces(args, c, o)
      [] h = "get_node" -> Node_Get(args, c, o)
      [] h = "list_nodes" -> ListNodes(args, c, o)

\* the parameters a tool declares as mcp.Required(), in the order it reads them
RequiredOf(h) ==
    CASE h \in {"get_pod", "delete_pod", "delete_pod (no grace period)", "get_pod_logs",
                "get_deployment", "get_service", "get_configmap"} -> <<"namespace", "name">>
      [] h \in {"list_pods", "list_deployments", "list_services", "list_configmaps"}
            -> <<"namespace">>
      [] h = "scale_deployment" -> <<"namespace", "name", "replicas">>
      [] h = "get_node" -> <<"name">>
      [] OTHER -> <<>>

\* the parameters a tool declares without mcp.Required()
OptionalOf(h) ==
    CASE h \in {"list_pods", "list_deployments", "list_services", "list_configmaps",
                "list_namespaces", "list_nodes"} -> {"fieldSelector", "labelSelector"}
      [] h = "delete_pod" -> {"gracePeriodSeconds"}
      [] h = "get_pod_logs" -> {"container", "tailLines", "previous"}
      [] OTHER -> {}

(* ------------------------------ actions -------------------------------- *)

\* the flag defaults of main.go init
FlagDefaults == [ReadOnly |-> TRUE, EnabledResources |-> <<"all">>,
                 EnabledToolsets |-> <<"all">>]

\* no environment variable is set
NoEnv == [READ_ONLY |-> Unset, RESOURCE_TYPES |-> Unset, TOOLSETS |-> Unset]

Ret(op, obj, names, err) == [op |-> op, obj |-> obj, names |-> names, err |-> err]

\* no tool has been called: an empty registry, no request, no result, a cluster
\* that holds nothing
NoOracle == [client |-> TRUE, api1 |-> TRUE, api2 |-> TRUE, read |-> TRUE, int32 |-> 0]
NoRequest == [tool |-> "", args |-> <<>>, oracle |-> NoOracle]
NoResult == [result |-> "nil", text |-> <<>>, err |-> <<>>]
NoObjects == {}

HandlersIdle ==
    /\ handlers = {}
    /\ request = NoRequest
    /\ result = NoResult
    /\ cluster = NoObjects
    /\ apiCalls = <<>>

\* state after NewToolsetGroup(readOnly)
Init ==
    /\ heap = <<>>
    /\ \E ro \in BOOLEAN : tg = NewToolsetGroup(ro)
    /\ written = <<>>
    /\ allOn = FALSE
    /\ ret = Ret("NewToolsetGroup", 0, <<>>, FALSE)
    /\ calls = <<>>
    /\ cfg = FlagDefaults
    /\ env = NoEnv
    /\ pc = "api"
    /\ HandlersIdle

CallNewToolset(name, description) ==
    /\ heap' = Append(heap, NewToolset(name, description))
    /\ written' = Append(written, {})
    /\ ret' = Ret("NewToolset", Len(heap) + 1, <<>>, FALSE)
    /\ calls' = <<>>
    /\ UNCHANGED <<tg, allOn, cfg, env, pc, hvars>>

CallAddReadTool(p, tool) ==
    /\ heap' = [heap EXCEPT ![p] = AddReadTool(@, tool)]
    /\ ret' = Ret("AddReadTool", p, <<>>, FALSE)
    /\ calls' = <<>>
    /\ UNCHANGED <<tg, written, allOn, cfg, env, pc, hvars>>

CallAddWriteTool(p, tool) ==
    /\ heap' = [heap EXCEPT ![p] = AddWriteTool(@, tool)]
    /\ written' = [written EXCEPT ![p] = @ \cup {tool}]
    /\ ret' = Ret("AddWriteTool", p, <<>>, FALSE)
    /\ calls' = <<>>
    /\ UNCHANGED <<tg, allOn, cfg, env, pc, hvars>>

CallAddToolset(p) ==
    LET r == AddToolset(tg, heap, p)
    IN /\ heap' = r.heap
       /\ tg' = r.tg
       /\ ret' = Ret("AddToolset", p, <<>>, FALSE)
       /\ calls' = <<>>
       /\ UNCHANGED <<written, allOn, cfg, env, pc, hvars>>

CallEnableToolset(name) ==
    LET r == EnableToolset(tg, heap, name)
    IN /\ heap' = r.heap
       /\ ret' = Ret("EnableToolset", 0, <<name>>, r.err)
       /\ calls' = <<>>
       /\ UNCHANGED <<tg, written, allOn, cfg, env, pc, hvars>>

CallEnableToolsets(names) ==
    LET r == EnableToolsets(tg, heap, names)
    IN /\ heap' = r.heap
       /\ tg' = [tg EXCEPT !.everythingOn = r.everythingOn]
       /\ allOn' = (allOn \/ ("all" \in Range(names) /\ ~r.err))
       /\ ret' = Ret("EnableToolsets", 0, names, r.err)
       /\ calls' = <<>>
       /\ UNCHANGED <<written, cfg, env, pc, hvars>>

\* Toolset.RegisterTools on the toolset p
CallToolsetRegisterTools(p) ==
    /\ calls' = Toolset_RegisterTools(heap[p])
    /\ ret' = Ret("Toolset.RegisterTools", p, <<>>, FALSE)
    /\ UNCHANGED <<heap, tg, written, allOn, cfg, env, pc, hvars>>

\* ToolsetGroup.RegisterTools
CallRegisterTools ==
    /\ \E o \in Perms(DOMAIN tg.Toolsets) :
          calls' = ToolsetGroup_RegisterTools(tg, heap, o)
    /\ ret' = Ret("RegisterTools", 0, <<>>, FALSE)
    /\ UNCHANGED <<heap, tg, written, allOn, cfg, env, pc, hvars>>

(* ------------------ specification of the toolset group ------------------ *)

NewToolsetStep ==
    /\ Len(heap) < MaxObjs
    /\ \E n \in TsNames : CallNewToolset(n, Descs[Len(heap) + 1])

AddToolsetStep == \E p \in DOMAIN heap : CallAddToolset(p)

EnableToolsetStep == \E n \in ArgNames : CallEnableToolset(n)

EnableToolsetsStep == \E names \in SeqsUpTo(ArgNames, MaxNames) : CallEnableToolsets(names)

Next ==
    \/ NewToolsetStep
    \/ AddToolsetStep
    \/ EnableToolsetStep
    \/ EnableToolsetsStep

Spec == Init /\ [][Next]_vars

(* ------------- specification of the tools of one toolset --------------- *)
(* One toolset object is followed, from NewToolset through the calls that  *)
(* add its tools, add it to the group, enable it and register it.          *)

\* the toolset name used at the tool level
ToolsetName == "ts1"

NewToolsetToolStep ==
    /\ heap = <<>>
    /\ CallNewToolset(ToolsetName, Descs[1])

AddReadToolStep ==
    \E p \in DOMAIN heap, tool \in Tools :
        /\ Len(heap[p].readTools) < MaxTools
        /\ CallAddReadTool(p, tool)

AddWriteToolStep ==
    \E p \in DOMAIN heap, tool \in Tools :
        /\ Len(heap[p].writeTools) < MaxTools
        /\ CallAddWriteTool(p, tool)

EnableToolStep == \E n \in {ToolsetName, "all"} : CallEnableToolset(n)

EnableToolsStep == \E names \in SeqsUpTo({ToolsetName, "all"}, 1) : CallEnableToolsets(names)

ToolsetRegisterToolsStep == \E p \in DOMAIN heap : CallToolsetRegisterTools(p)

NextTools ==
    \/ NewToolsetToolStep
    \/ AddReadToolStep
    \/ AddWriteToolStep
    \/ AddToolsetStep
    \/ EnableToolStep
    \/ EnableToolsStep
    \/ ToolsetRegisterToolsStep
    \/ CallRegisterTools

SpecTools == Init /\ [][NextTools]_vars

(* ------------------ specification of setupK8sServer --------------------- *)
(* InitToolsets is called with the toolsets, the read-only flag and the    *)
(* resource types of cfg, and the group it returns registers its tools.    *)

\* length of the resource-types list
MaxRes == 1
\* length of the toolsets list
MaxPassed == 1

\* names given in the resource-types list: the registry's names, the names
\* the flag's help text gives, and "all"
ResArgs == ResourceNames \cup
           {"pods", "deployments", "services", "configmaps", "namespaces", "nodes", "all"}

\* names given in the toolsets list
PassedNames == {"k8s_resources", "all", "nosuch"}

InitSetup ==
    /\ heap = <<>>
    /\ tg = NewToolsetGroup(FALSE)
    /\ written = <<>>
    /\ allOn = FALSE
    /\ ret = Ret("main", 0, <<>>, FALSE)
    /\ calls = <<>>
    /\ cfg \in [ReadOnly : BOOLEAN,
                EnabledResources : SeqsUpTo(ResArgs, MaxRes),
                EnabledToolsets : SeqsUpTo(PassedNames, MaxPassed)]
    /\ env = NoEnv
    /\ pc = "setup"
    /\ HandlersIdle

\* main.go setupK8sServer: k8s.InitToolsets(cfg.EnabledToolsets, cfg.ReadOnly, ...,
\* cfg.EnabledResources); an error ends the setup
CallInitToolsets ==
    /\ pc = "setup"
    /\ \E o \in Perms(InitRegistry(cfg.EnabledResources)) :
          LET r == InitToolsets(cfg.EnabledToolsets, cfg.ReadOnly, cfg.EnabledResources, o)
          IN IF r.err
             THEN /\ pc' = "failed"
                  /\ UNCHANGED <<heap, tg, written>>
             ELSE /\ pc' = "initialized"
                  /\ heap' = r.heap
                  /\ tg' = r.tg
                  /\ written' = <<Range(CreateToolset(o, "k8s_resources").writeTools)>>
    /\ ret' = Ret("InitToolsets", 0, cfg.EnabledToolsets, pc' = "failed")
    /\ calls' = <<>>
    /\ handlers' = InitRegistry(cfg.EnabledResources)
    /\ UNCHANGED <<allOn, cfg, env, request, result, cluster, apiCalls>>

\* main.go setupK8sServer: k8sTools.RegisterTools(k8sServer)
ServerRegisterTools ==
    /\ pc = "initialized"
    /\ pc' = "serving"
    /\ \E o \in Perms(DOMAIN tg.Toolsets) :
          calls' = ToolsetGroup_RegisterTools(tg, heap, o)
    /\ ret' = Ret("RegisterTools", 0, <<>>, FALSE)
    /\ UNCHANGED <<heap, tg, written, allOn, cfg, env, hvars>>

NextSetup ==
    \/ CallInitToolsets
    \/ ServerRegisterTools

SpecSetup == InitSetup /\ [][NextSetup]_vars

(* -------------- specification of the direct-list setup ----------------- *)
(* The InitToolsets that hands the k8s_resources toolset its tools as two  *)
(* lists, followed by the registration of the group's tools.               *)

\* Toolset.AddReadTools(tools...): the tools are appended to the read tools
RECURSIVE AddReadTools(_, _)
AddReadTools(t, tools) ==
    IF tools = <<>> THEN t ELSE AddReadTools(AddReadTool(t, Head(tools)), Tail(tools))

\* Toolset.AddWriteTools(tools...): the tools are appended to the write tools
\* unless the toolset is read-only
RECURSIVE AddWriteTools(_, _)
AddWriteTools(t, tools) ==
    IF tools = <<>> THEN t ELSE AddWriteTools(AddWriteTool(t, Head(tools)), Tail(tools))

\* the tools InitToolsets passes to AddReadTools
DirectReadTools ==
    <<"get_pod", "list_pods", "get_pod_logs", "get_deployment", "list_deployments",
      "scale_deployment", "get_service", "list_services", "get_configmap",
      "list_configmaps", "list_namespaces", "list_nodes">>

\* the tools InitToolsets passes to AddWriteTools
DirectWriteTools == <<"delete_pod", "scale_deployment">>

\* InitToolsets with the two tool lists: the error flag and, when there is no
\* error, the group and its toolset
InitToolsetsDirect(passedToolsets, readOnly) ==
    LET tsg == NewToolsetGroup(readOnly)
        resources == AddWriteTools(
                         AddReadTools(NewToolset("k8s_resources",
                                                 "K8s resources related tools"),
                                      DirectReadTools),
                         DirectWriteTools)
        added == AddToolset(tsg, <<resources>>, 1)
        r == EnableToolsets(added.tg, added.heap, passedToolsets)
    IN [err |-> r.err,
        heap |-> r.heap,
        tg |-> [added.tg EXCEPT !.everythingOn = r.everythingOn]]

\* length of the toolsets list passed to the direct-list InitToolsets
MaxDirect == 3

InitDirect ==
    /\ heap = <<>>
    /\ tg = NewToolsetGroup(FALSE)
    /\ written = <<>>
    /\ allOn = FALSE
    /\ ret = Ret("main", 0, <<>>, FALSE)
    /\ calls = <<>>
    /\ cfg \in [ReadOnly : BOOLEAN,
                EnabledResources : {<<"all">>},
                EnabledToolsets : SeqsUpTo(PassedNames, MaxDirect)]
    /\ env = NoEnv
    /\ pc = "setup"
    /\ HandlersIdle

\* InitToolsets(cfg.EnabledToolsets, cfg.ReadOnly, ...); an error ends the setup
CallInitToolsetsDirect ==
    /\ pc = "setup"
    /\ LET r == InitToolsetsDirect(cfg.EnabledToolsets, cfg.ReadOnly)
       IN IF r.err
          THEN /\ pc' = "failed"
               /\ UNCHANGED <<heap, tg, written>>
          ELSE /\ pc' = "initialized"
               /\ heap' = r.heap
               /\ tg' = r.tg
               /\ written' = <<Range(DirectWriteTools)>>
    /\ ret' = Ret("InitToolsets", 0, cfg.EnabledToolsets, pc' = "failed")
    /\ calls' = <<>>
    /\ UNCHANGED <<allOn, cfg, env, hvars>>

NextDirect ==
    \/ CallInitToolsetsDirect
    \/ ServerRegisterTools

SpecDirect == InitDirect /\ [][NextDirect]_vars

(* ------------------ specification of the configuration ------------------ *)
(* cfg holds what viper.Unmarshal read from the flags; loadEnvOverrides     *)
(* then applies the environment.                                            *)

\* values of K8S_MCP_READ_ONLY
ReadOnlyVals == {"true", "TRUE", "True", "1", "false", "FALSE", "0", "yes", ""}

\* values of K8S_MCP_RESOURCE_TYPES
ResourceTypesVals == {<<>>, <<"all">>, <<"pods">>, <<"pod", ",", "deployment">>}

\* values of K8S_MCP_TOOLSETS
ToolsetsVals == {<<>>, <<"all">>, <<"k8s_resources", ",">>}

InitConfig ==
    /\ heap = <<>>
    /\ tg = NewToolsetGroup(FALSE)
    /\ written = <<>>
    /\ allOn = FALSE
    /\ ret = Ret("main", 0, <<>>, FALSE)
    /\ calls = <<>>
    /\ cfg \in [ReadOnly : BOOLEAN,
                EnabledResources : {<<"all">>, <<"pod">>},
                EnabledToolsets : {<<"all">>, <<"k8s_resources">>}]
    /\ env \in [READ_ONLY : {Unset} \cup {Set(v) : v \in ReadOnlyVals},
                RESOURCE_TYPES : {Unset} \cup {Set(v) : v \in ResourceTypesVals},
                TOOLSETS : {Unset} \cup {Set(v) : v \in ToolsetsVals}]
    /\ pc = "load"
    /\ HandlersIdle

\* main.go stdioCmd / sseCmd RunE: loadEnvOverrides(&cfg)
CallLoadEnvOverrides ==
    /\ pc = "load"
    /\ pc' = "loaded"
    /\ cfg' = loadEnvOverrides(cfg, env)
    /\ ret' = Ret("loadEnvOverrides", 0, <<>>, FALSE)
    /\ UNCHANGED <<heap, tg, written, allOn, calls, env, hvars>>

NextConfig == CallLoadEnvOverrides

SpecConfig == InitConfig /\ [][NextConfig]_vars

(* ------------------ specification of the tool handlers ------------------ *)
(* The server waits for a tool call, the handler serves it against the     *)
(* cluster, and the server waits for the next one.                         *)

\* the largest replica count asked for, short of the int32 limits
MaxReplicas == 3

\* the default of the --namespace flag
DefaultNamespace == "default"

\* the cluster the server is started against
InitialObjects ==
    {Object("pod", DefaultNamespace, "web", 0),
     Object("deployment", DefaultNamespace, "web", 1),
     Object("service", DefaultNamespace, "web", 0),
     Object("configmap", DefaultNamespace, "web", 0),
     Object("namespace", "", DefaultNamespace, 0),
     Object("node", "", "web", 0)}

\* the values a request gives to a parameter; a JSON number arrives as a float64
ValuesOf(p) ==
    CASE p = "namespace" -> {Str(DefaultNamespace), Str(""), Float(1, 0)}
      [] p = "name" -> {Str("web"), Str("gone"), Str("")}
      [] p = "replicas" -> {Float(n, 0) : n \in 0..MaxReplicas}
                           \cup {Float(MaxInt32, 0), Beyond(1),
                                 Float(2, 5), Str("3")}
      [] p = "gracePeriodSeconds" -> {Float(30, 0), Float(0, 0), Int64(30), Int64(0),
                                      Bool(TRUE)}
      [] p = "fieldSelector" -> {Str("status.phase=Running"), Bool(TRUE)}
      [] p = "labelSelector" -> {Str("app=web"), Float(1, 0)}
      [] p = "container" -> {Str("main")}
      [] p = "tailLines" -> {Float(10, 0), Str("10")}
      [] p = "previous" -> {Bool(TRUE), Str("true")}

\* the argument maps over the parameters S: each parameter absent or given
RECURSIVE ArgsOver(_)
ArgsOver(S) ==
    IF S = {} THEN {<<>>}
    ELSE LET p == CHOOSE q \in S : TRUE
         IN UNION {{f} \cup {(p :> v) @@ f : v \in ValuesOf(p)} : f \in ArgsOver(S \ {p})}

\* the requests a tool is called with
Requests(h) == ArgsOver(Range(RequiredOf(h)) \cup OptionalOf(h))

Oracles == [client : BOOLEAN, api1 : BOOLEAN, api2 : BOOLEAN, read : BOOLEAN,
            int32 : {MinInt32, MaxInt32}]

InitHandlers ==
    /\ heap = <<>>
    /\ tg = NewToolsetGroup(FALSE)
    /\ written = <<>>
    /\ allOn = FALSE
    /\ ret = Ret("main", 0, <<>>, FALSE)
    /\ calls = <<>>
    /\ cfg = FlagDefaults
    /\ env = NoEnv
    /\ pc = "serve"
    /\ handlers = {}
    /\ request = NoRequest
    /\ result = NoResult
    /\ cluster = InitialObjects
    /\ apiCalls = <<>>

\* a tools/call request arrives and its handler runs to its return
CallTool ==
    /\ pc = "serve"
    /\ \E h \in HandlerNames : \E args \in Requests(h) : \E o \in Oracles :
          LET d == Handle(h, args, cluster, o)
          IN /\ request' = [tool |-> h, args |-> args, oracle |-> o]
             /\ result' = d.result
             /\ apiCalls' = d.calls
             /\ cluster' = d.cluster
    /\ pc' = "served"
    /\ UNCHANGED <<heap, tg, written, allOn, ret, calls, cfg, env, handlers>>

\* the result is sent and the server waits for the next request
AwaitRequest ==
    /\ pc = "served"
    /\ pc' = "serve"
    /\ request' = NoRequest
    /\ result' = NoResult
    /\ apiCalls' = <<>>
    /\ UNCHANGED <<heap, tg, written, allOn, ret, calls, cfg, env, handlers, cluster>>

NextHandlers ==
    \/ CallTool
    \/ AwaitRequest

SpecHandlers == InitHandlers /\ [][NextHandlers]_vars

(* ----------------- the registry InitToolsets builds -------------------- *)
(* InitToolsets and InitToolset, up to the registry, for every list of     *)
(* resource types of at most MaxList names.                                *)

\* the longest list of resource types
MaxList == 3

\* what a list of resource types is made of: "all", names that have a handler,
\* and names that have none
ListNames == {"all", "pod", "deployment", "node", "pods"}

InitRegistryBuild ==
    /\ heap = <<>>
    /\ tg = NewToolsetGroup(FALSE)
    /\ written = <<>>
    /\ allOn = FALSE
    /\ ret = Ret("main", 0, <<>>, FALSE)
    /\ calls = <<>>
    /\ cfg \in [ReadOnly : {TRUE},
                EnabledResources : SeqsUpTo(ListNames, MaxList),
                EnabledToolsets : {<<"all">>}]
    /\ env = NoEnv
    /\ pc = "registry"
    /\ HandlersIdle

\* InitToolsets up to the registry: no path returns an error
BuildRegistry ==
    /\ pc = "registry"
    /\ handlers' = InitRegistry(cfg.EnabledResources)
    /\ ret' = Ret("InitToolsets", 0, cfg.EnabledResources, FALSE)
    /\ pc' = "built"
    /\ UNCHANGED <<heap, tg, written, allOn, calls, cfg, env, request, result, cluster,
                   apiCalls>>

NextRegistry == BuildRegistry

SpecRegistry == InitRegistryBuild /\ [][NextRegistry]_vars

(* ------------------------ the parameter helpers ------------------------ *)
(* RequiredParam, OptionalParam and OptionalParamOK applied to the         *)
(* arguments of a request, for every parameter name and type.              *)

ParamNames == {"myParam", "anotherParam"}
ParamTypes == {"string", "float64", "int64", "bool"}
ArgValues == {Str("hello"), Str(""), Float(123, 0), Float(0, 0), Float(2, 5),
              Int64(5), Int64(0), Bool(TRUE), Bool(FALSE)}

\* the argument maps of a request
ArgMaps == UNION {[S -> ArgValues] : S \in SUBSET ParamNames}

InitParams ==
    /\ heap = <<>>
    /\ tg = NewToolsetGroup(FALSE)
    /\ written = <<>>
    /\ allOn = FALSE
    /\ ret = Ret("main", 0, <<>>, FALSE)
    /\ calls = <<>>
    /\ cfg = FlagDefaults
    /\ env = NoEnv
    /\ pc = "params"
    /\ handlers = {}
    /\ request \in [tool : {""}, args : ArgMaps, oracle : {NoOracle}]
    /\ result = NoResult
    /\ cluster = NoObjects
    /\ apiCalls = <<>>

\* val, err := RequiredParam[T](request, p)
CallRequiredParam ==
    /\ pc = "params"
    /\ \E p \in ParamNames : \E T \in ParamTypes :
          /\ result' = RequiredParam(request.args, p, T)
          /\ ret' = Ret("RequiredParam", 0, <<p, T>>, FALSE)
    /\ pc' = "called"
    /\ UNCHANGED <<heap, tg, written, allOn, calls, cfg, env, handlers, request, cluster,
                   apiCalls>>

\* val, err := OptionalParam[T](request, p)
CallOptionalParam ==
    /\ pc = "params"
    /\ \E p \in ParamNames : \E T \in ParamTypes :
          /\ result' = OptionalParam(request.args, p, T)
          /\ ret' = Ret("OptionalParam", 0, <<p, T>>, FALSE)
    /\ pc' = "called"
    /\ UNCHANGED <<heap, tg, written, allOn, calls, cfg, env, handlers, request, cluster,
                   apiCalls>>

\* val, ok, err := OptionalParamOK[T](request, p)
CallOptionalParamOK ==
    /\ pc = "params"
    /\ \E p \in ParamNames : \E T \in ParamTypes :
          /\ result' = OptionalParamOK(request.args, p, T)
          /\ ret' = Ret("OptionalParamOK", 0, <<p, T>>, FALSE)
    /\ pc' = "called"
    /\ UNCHANGED <<heap, tg, written, allOn, calls, cfg, env, handlers, request, cluster,
                   apiCalls>>

NextParams ==
    \/ CallRequiredParam
    \/ CallOptionalParam
    \/ CallOptionalParamOK

SpecParams == InitParams /\ [][NextParams]_vars

(* ------------------------------- claims -------------------------------- *)

\* the pointers stored in the group
InGroup == {tg.Toolsets[n] : n \in DOMAIN tg.Toolsets}

\* the tools the last call registered for toolset p with the server
RegisteredOf(p) ==
    IF ret.op = "RegisterTools" \/ (ret.op = "Toolset.RegisterTools" /\ ret.obj = p)
    THEN Range(calls)
    ELSE {}

\* the tools of toolset p that reach a client: registered, active or available
Exposed(p) ==
    RegisteredOf(p) \cup Range(GetActiveTools(heap[p]))
                    \cup Range(GetAvailableTools(heap[p]))

C4_RegisterMatchesActive ==
    \A p \in DOMAIN heap :
        LET t == heap[p]
            expected == IF ~t.Enabled THEN <<>>
                        ELSE IF t.readOnly THEN t.readTools
                        ELSE [i \in 1..(Len(t.readTools) + Len(t.writeTools)) |->
                                 IF i <= Len(t.readTools)
                                 THEN t.readTools[i]
                                 ELSE t.writeTools[i - Len(t.readTools)]]
        IN /\ GetActiveTools(t) = expected
           /\ Toolset_RegisterTools(t) = expected
           /\ (ret.op = "Toolset.RegisterTools" /\ ret.obj = p) => calls = expected

\* C4 witness: an enabled toolset that is not read-only has registered two
\* read tools and then a write tool
C4_Witness ==
    /\ ret.op = "Toolset.RegisterTools"
    /\ heap[ret.obj].Enabled /\ ~heap[ret.obj].readOnly
    /\ heap[ret.obj].readTools = <<"t2", "t1">>
    /\ heap[ret.obj].writeTools = <<"t2">>
    /\ calls = <<"t2", "t1", "t2">>

\* every toolset stored in the group is Enabled
AllEnabled == \A p \in InGroup : heap[p].Enabled

\* C5 (as stated): an EnableToolsets call whose list contains "all" anywhere
\* returns nil, sets everythingOn and leaves every toolset of the group Enabled.
C5_AllAnywhere ==
    (ret.op = "EnableToolsets" /\ "all" \in Range(ret.names)) =>
        (~ret.err /\ tg.everythingOn /\ AllEnabled)

\* names IsEnabled is asked about: the toolset names, "all" and a name that no
\* toolset has
AskNames == ArgNames \cup {"nosuch"}

\* C6: while "all" has never been enabled IsEnabled(name) is false for a name
\* not in the group and the toolset's Enabled flag for a name in the group;
\* once "all" has been enabled it is true for every name.
C6_IsEnabled ==
    \A name \in AskNames :
        IsEnabled(tg, heap, name) =
            IF allOn
            THEN TRUE
            ELSE IF name \in DOMAIN tg.Toolsets
                 THEN heap[tg.Toolsets[name]].Enabled
                 ELSE FALSE

\* C6 witness: "all" was enabled, and IsEnabled is true for a name the group
\* does not have and for a toolset added later whose Enabled flag is false
C6_Witness ==
    /\ allOn
    /\ "ts2" \notin DOMAIN tg.Toolsets /\ IsEnabled(tg, heap, "ts2")
    /\ "ts1" \in DOMAIN tg.Toolsets
    /\ ~heap[tg.Toolsets["ts1"]].Enabled /\ IsEnabled(tg, heap, "ts1")

\* C7: EnableToolset(name) returns an error and changes nothing when name is
\* not in the group; otherwise it returns nil and IsEnabled(name) holds
\* afterwards; on an already enabled toolset it returns nil and changes nothing.
C7_EnableToolset ==
    [][ret'.op = "EnableToolset" =>
          LET name == ret'.names[1]
          IN IF name \notin DOMAIN tg.Toolsets
             THEN ret'.err /\ heap' = heap /\ tg' = tg
             ELSE /\ ~ret'.err
                  /\ IsEnabled(tg', heap', name)
                  /\ heap'[tg'.Toolsets[name]].Enabled
                  /\ tg' = tg
                  /\ \A p \in DOMAIN heap :
                        p # tg.Toolsets[name] => heap'[p] = heap[p]
                  /\ heap[tg.Toolsets[name]].Enabled => heap' = heap]_vars

\* C7 witness: EnableToolset has enabled one toolset of a group that holds
\* another, still disabled one, and "all" was never enabled
C7_Witness ==
    /\ ret.op = "EnableToolset" /\ ~ret.err /\ ~tg.everythingOn
    /\ heap[tg.Toolsets[ret.names[1]]].Enabled
    /\ \E p \in InGroup : ~heap[p].Enabled

\* the heap after exactly the toolsets named in names were enabled
EnabledBy(names) ==
    [p \in DOMAIN heap |->
        IF \E n \in Range(names) \cap DOMAIN tg.Toolsets : tg.Toolsets[n] = p
        THEN [heap[p] EXCEPT !.Enabled = TRUE]
        ELSE heap[p]]

\* what C8 says of a call EnableToolsets(names) with no "all" in names
C8_Post(names) ==
    /\ ~ret'.err <=> Range(names) \subseteq DOMAIN tg.Toolsets
    /\ ~ret'.err => heap' = EnabledBy(names) /\ tg' = tg
    /\ names = <<>> => ~ret'.err /\ heap' = heap /\ tg' = tg

C9_AddToolset ==
    [][ret'.op = "AddToolset" =>
          LET p == ret'.obj
              name == heap[p].Name
          IN /\ DOMAIN tg'.Toolsets = DOMAIN tg.Toolsets \cup {name}
             /\ tg'.Toolsets[name] = p
             /\ \A n \in DOMAIN tg.Toolsets : n # name => tg'.Toolsets[n] = tg.Toolsets[n]
             /\ heap'[tg'.Toolsets[name]].Name = name
             /\ heap'[tg'.Toolsets[name]].Description = heap[p].Description
             /\ heap'[tg'.Toolsets[name]].Enabled = heap[p].Enabled
             /\ \A q \in DOMAIN heap : q # p => heap'[q] = heap[q]]_vars

\* C9 witness: the entry of an enabled toolset was replaced by a fresh toolset
\* of the same name, and the entry is disabled and has the new description
C9_Witness ==
    /\ ret.op = "AddToolset"
    /\ ~heap[ret.obj].Enabled
    /\ tg.Toolsets[heap[ret.obj].Name] = ret.obj
    /\ \E q \in DOMAIN heap :
          /\ q # ret.obj
          /\ heap[q].Name = heap[ret.obj].Name
          /\ heap[q].Enabled
          /\ heap[q].Description # heap[ret.obj].Description

(* C2: end to end, InitToolsets with readOnly true followed by            *)
(* ToolsetGroup.RegisterTools registers neither delete_pod nor            *)
(* scale_deployment, whatever the toolsets list and the resource-type     *)
(* selection; with readOnly false, the k8s_resources toolset enabled and  *)
(* the pod and deployment resources selected, both are registered.        *)
PodAndDeploymentSelected ==
    \/ Len(cfg.EnabledResources) = 0
    \/ "all" \in Range(cfg.EnabledResources)
    \/ {"pod", "deployment"} \subseteq Range(cfg.EnabledResources)

ResourcesToolsetEnabled ==
    /\ "k8s_resources" \in DOMAIN tg.Toolsets
    /\ heap[tg.Toolsets["k8s_resources"]].Enabled

C2_ReadOnlyEndToEnd ==
    pc = "serving" =>
        /\ cfg.ReadOnly => Range(calls) \cap {"delete_pod", "scale_deployment"} = {}
        /\ (~cfg.ReadOnly /\ ResourcesToolsetEnabled /\ PodAndDeploymentSelected)
               => {"delete_pod", "scale_deployment"} \subseteq Range(calls)

\* a read-only server that registered the read tools of the pod and deployment
\* handlers, whose write tools were passed to AddWriteTool
C2_Witness ==
    /\ pc = "serving"
    /\ cfg.ReadOnly
    /\ ResourcesToolsetEnabled
    /\ {"delete_pod", "scale_deployment"} \subseteq written[1]
    /\ {"get_pod", "get_deployment"} \subseteq Range(calls)

(* C3: for every value of the --read-only flag and of K8S_MCP_READ_ONLY,  *)
(* Config.ReadOnly after loadEnvOverrides is false only if the variable   *)
(* is "false", or the variable is unset and the flag is false.            *)
C3_ReadOnlyOffOnlyExplicitly ==
    [][(pc = "load" /\ pc' = "loaded" /\ ~cfg'.ReadOnly) =>
          \/ env.READ_ONLY = Set("false")
          \/ (~env.READ_ONLY.exists /\ ~cfg.ReadOnly)]_vars

(* C10: a resource-types list that contains one of the names pods,        *)
(* deployments, services, configmaps, namespaces, nodes, and not "all",   *)
(* causes the tools of that resource to be added to the k8s_resources     *)
(* toolset.                                                               *)
ResourceOf == [pods |-> "pod", deployments |-> "deployment", services |-> "service",
               configmaps |-> "configmap", namespaces |-> "namespace", nodes |-> "node"]

ReadToolsOf(resource) ==
    Range(Handler_RegisterTools(resource, NewToolset("k8s_resources", "")).readTools)

C10_PluralNamesAccepted ==
    (pc = "initialized" /\ "all" \notin Range(cfg.EnabledResources)) =>
        \A n \in Range(cfg.EnabledResources) \cap DOMAIN ResourceOf :
            ReadToolsOf(ResourceOf[n]) \subseteq
                Range(heap[tg.Toolsets["k8s_resources"]].readTools)

(* C11: the namespace argument of the namespaced tools is optional: a     *)
(* request without it is not rejected for it and is served against the    *)
(* default namespace.                                                     *)
NamespacedTools ==
    {"get_pod", "list_pods", "delete_pod", "get_deployment", "list_deployments",
     "scale_deployment", "get_service", "list_services", "get_configmap", "list_configmaps"}

C11_NamespaceOptional ==
    (pc = "served" /\ request.tool \in NamespacedTools
        /\ "namespace" \notin DOMAIN request.args) =>
        /\ result.text # <<"missing required parameter: ", "namespace">>
        /\ \A i \in DOMAIN apiCalls : apiCalls[i].namespace = DefaultNamespace

\* the call found a client and the API server served its requests
Served == request.oracle.client /\ request.oracle.api1 /\ request.oracle.api2

\* the call names, with a namespace and a name, an object the cluster holds
NamesExisting(kind) ==
    /\ {"namespace", "name"} \subseteq DOMAIN request.args
    /\ request.args["namespace"].type = "string"
    /\ request.args["name"].type = "string"
    /\ Named(cluster, kind, request.args["namespace"].str, request.args["name"].str) # {}

\* the replica count of the deployment the call names
ReplicasNow ==
    {x.replicas : x \in Named(cluster, "deployment", request.args["namespace"].str,
                              request.args["name"].str)}

(* C12: for an existing deployment and replicas = 0, scale_deployment     *)
(* returns a non-error result and the deployment's Spec.Replicas is 0.    *)
C12_ScaleToZero ==
    (pc = "served" /\ request.tool = "scale_deployment" /\ Served
        /\ NamesExisting("deployment")
        /\ "replicas" \in DOMAIN request.args /\ request.args["replicas"] = Float(0, 0)) =>
        /\ result.result = "text"
        /\ ReplicasNow = {0}

\* the type a handler reads a required parameter with
TypeOf(p) == IF p = "replicas" THEN "float64" ELSE "string"

\* the required parameters of the tool called, and those the request lacks
Required == RequiredOf(request.tool)
Absent == {i \in DOMAIN Required : Required[i] \notin DOMAIN request.args}

\* the required parameters RequiredParam refuses: absent, of another type, or
\* the zero value
Refused ==
    {i \in DOMAIN Required :
        \/ Required[i] \notin DOMAIN request.args
        \/ request.args[Required[i]].type # TypeOf(Required[i])
        \/ request.args[Required[i]] = Zero(TypeOf(Required[i]))}

\* the first of a non-empty set of positions
First(I) == CHOOSE i \in I : \A k \in I : i <= k

\* a tool error and a nil error, returned before any API request
RejectedEarly == result.result = "error" /\ result.err = <<>> /\ apiCalls = <<>>

(* C13 (as stated): a request that lacks a required parameter gets a tool *)
(* error "missing required parameter: <name>" with a nil error and no API *)
(* request, <name> being the first lacking parameter in declaration order.*)
C13_MissingRequiredParam ==
    (pc = "served" /\ Absent # {}) =>
        /\ RejectedEarly
        /\ result.text = <<"missing required parameter: ", Required[First(Absent)]>>

(* C13 (amended): such a request gets a tool error with a nil error and   *)
(* no API request; the text is about the first required parameter, in     *)
(* declaration order, that is absent, empty (the zero value) or of        *)
(* another type: "missing required parameter: <name>" if it is absent or  *)
(* empty, "parameter <name> is not of type <T>" otherwise. So the text    *)
(* names the first lacking parameter when the ones before it are valid.   *)
C13_FirstRefusedParam ==
    (pc = "served" /\ Absent # {}) =>
        LET p == Required[First(Refused)]
        IN /\ RejectedEarly
           /\ result.text =
                 IF p \in DOMAIN request.args /\ request.args[p].type # TypeOf(p)
                 THEN <<"parameter ", p, " is not of type ", TypeOf(p)>>
                 ELSE <<"missing required parameter: ", p>>
           /\ First(Refused) = First(Absent) =>
                 result.text = <<"missing required parameter: ", Required[First(Absent)]>>

\* C13 witness: scale_deployment called with a namespace only, while no client
\* can be had: the error names name, the first of the two lacking parameters
C13_Witness ==
    /\ pc = "served" /\ request.tool = "scale_deployment"
    /\ DOMAIN request.args = {"namespace"}
    /\ ~request.oracle.client
    /\ result = NewToolResultError(<<"missing required parameter: ", "name">>)

\* the type a handler reads an optional parameter with
OptionalTypeOf(p) ==
    CASE p = "gracePeriodSeconds" -> "int64"
      [] p = "tailLines" -> "float64"
      [] p = "previous" -> "bool"
      [] OTHER -> "string"

ListTools == {"list_pods", "list_deployments", "list_services", "list_configmaps",
              "list_namespaces", "list_nodes"}
DeleteTools == {"delete_pod", "delete_pod (no grace period)"}

\* the kind of object a tool is about
KindOf(h) ==
    CASE h \in {"get_pod", "list_pods", "get_pod_logs"} \cup DeleteTools -> "pod"
      [] h \in {"get_deployment", "list_deployments", "scale_deployment"} -> "deployment"
      [] h \in {"get_service", "list_services"} -> "service"
      [] h \in {"get_configmap", "list_configmaps"} -> "configmap"
      [] h = "list_namespaces" -> "namespace"
      [] h \in {"get_node", "list_nodes"} -> "node"

\* the arguments a pass every check the handler h makes before it asks for a
\* client
Accepted(h, a) ==
    /\ \A i \in DOMAIN RequiredOf(h) :
          LET p == RequiredOf(h)[i]
          IN p \in DOMAIN a /\ a[p].type = TypeOf(p) /\ a[p] # Zero(TypeOf(p))
    /\ \A p \in OptionalOf(h) \cap DOMAIN a : a[p].type = OptionalTypeOf(p)
    /\ h = "scale_deployment" => ~a["replicas"].over /\ a["replicas"].frac = 0

\* the namespace the accepted arguments a name ("" for a cluster-wide tool)
NamespaceIn(a) == IF "namespace" \in DOMAIN a THEN a["namespace"].str ELSE ""

\* the object of cluster c that the accepted arguments a of tool h name
Found(c, h, a) == Named(c, KindOf(h), NamespaceIn(a), a["name"].str)

\* a request of the call fails: the server does not serve it or the object named
\* does not exist
ApiFails(c, h, a, o) ==
    \/ ~o.api1
    \/ h \notin ListTools /\ Found(c, h, a) = {}
    \/ h = "scale_deployment" /\ ~o.api2

\* the call succeeds
Succeeds(c, h, a, o) ==
    /\ o.client
    /\ ~ApiFails(c, h, a, o)
    /\ h = "get_pod_logs" => o.read

\* the objects the API returns to a successful call
Returned(c, h, a) ==
    IF h \in ListTools
    THEN {x \in c : x.kind = KindOf(h) /\ NamespaceIn(a) \in {"", x.namespace}}
    ELSE IF h = "scale_deployment"
         THEN {[x EXCEPT !.replicas = a["replicas"].num] : x \in Found(c, h, a)}
         ELSE Found(c, h, a)

\* a handler runs on accepted arguments
AcceptedCall == pc = "serve" /\ pc' = "served" /\ Accepted(request'.tool, request'.args)

\* a failure of getClient is a nil result and an error, a failure of the API is a
\* tool error "failed to <operation> <resource>..." and a nil error
FailuresReported ==
    /\ ~request'.oracle.client => result' = ReturnError(ClientError)
    /\ (request'.oracle.client
          /\ ApiFails(cluster, request'.tool, request'.args, request'.oracle)) =>
          /\ result'.result = "error" /\ result'.err = <<>>
          /\ Len(result'.text) >= 4 /\ result'.text[1] = "failed to "
          /\ result'.text[2] \in {"get", "list", "delete", "scale"}

(* C14 (as stated): in every handler a failed API request gives a tool     *)
(* error "failed to <operation> <resource>" and a nil error, a failed      *)
(* getClient a nil result and an error, and a successful call a non-error  *)
(* result whose text is the JSON of the returned object.                   *)
C14_ResultsOfACall ==
    [][AcceptedCall =>
        /\ FailuresReported
        /\ Succeeds(cluster, request'.tool, request'.args, request'.oracle) =>
              result' = NewToolResultText(
                            Marshal(Returned(cluster, request'.tool, request'.args)))]_vars

(* C14 (amended): failures are reported as stated; a successful call gives *)
(* a non-error result whose text is the JSON of the returned object for    *)
(* every tool but delete_pod and get_pod_logs, a sentence that names the   *)
(* deleted pod and its namespace for delete_pod, and the log text for      *)
(* get_pod_logs.                                                           *)
C14_ResultsOfACallByTool ==
    [][AcceptedCall =>
        /\ FailuresReported
        /\ Succeeds(cluster, request'.tool, request'.args, request'.oracle) =>
              /\ result'.result = "text" /\ result'.err = <<>>
              /\ request'.tool \notin DeleteTools \cup {"get_pod_logs"} =>
                    result'.text = Marshal(Returned(cluster, request'.tool, request'.args))
              /\ request'.tool \in DeleteTools =>
                    /\ SubSeq(result'.text, 1, 4) =
                          <<"Pod ", request'.args["name"].str, " in namespace ",
                            request'.args["namespace"].str>>
                    /\ result'.text[5] \in {" deleted", " deleted successfully"}
              /\ request'.tool = "get_pod_logs" =>
                    result'.text = <<"logs of ", request'.args["name"].str>>]_vars

\* C14 witness: get_node of a node that does not exist, with a client and a
\* server that answers
C14_Witness ==
    /\ pc = "served" /\ request.tool = "get_node"
    /\ request.oracle.client /\ request.oracle.api1
    /\ "name" \in DOMAIN request.args /\ request.args["name"] = Str("gone")
    /\ result = NewToolResultError(Failed("get", "node", "not found"))

\* scale_deployment has run with a namespace and a name it accepts and a
\* float64 as replicas
Scaled ==
    /\ pc = "served" /\ request.tool = "scale_deployment"
    /\ \A p \in {"namespace", "name", "replicas"} :
          /\ p \in DOMAIN request.args
          /\ request.args[p].type = TypeOf(p)
    /\ request.args["namespace"].str # "" /\ request.args["name"].str # ""

\* the replicas argument of a call that Scaled describes
Wanted == request.args["replicas"]

\* Scaled, on a deployment that exists, with a client and a server that answers
ScaledExisting == Scaled /\ Served /\ NamesExisting("deployment")

\* the call is refused as not an integer and no request is made
NotAnInteger ==
    /\ result = NewToolResultError(<<"replicas must be an integer">>)
    /\ apiCalls = <<>>

\* the call returns the deployment with n replicas, which the cluster now holds
ScaledTo(n) ==
    /\ result.result = "text" /\ result.err = <<>>
    /\ result.text =
          Marshal({Object("deployment", request.args["namespace"].str,
                          request.args["name"].str, n)})
    /\ ReplicasNow = {n}

(* C15 (as stated): scale_deployment on an existing deployment with a      *)
(* positive integer n as replicas returns a non-error result whose         *)
(* deployment has Spec.Replicas = n; with a replicas value that is not an  *)
(* integer it returns the error "replicas must be an integer" and makes no *)
(* update.                                                                 *)
C15_ScaleToN ==
    /\ (ScaledExisting /\ Positive(Wanted) /\ Wanted.frac = 0) =>
          ~Wanted.over /\ ScaledTo(Wanted.num)
    /\ (Scaled /\ Wanted.frac # 0) => NotAnInteger

(* C15 (amended): the first part holds for the positive integers up to     *)
(* 2147483647, the largest int32; a larger integer is refused with         *)
(* "replicas must be an integer" and no request, like a value that is not  *)
(* an integer.                                                             *)
C15_ScaleToInt32 ==
    /\ (ScaledExisting /\ Positive(Wanted) /\ Wanted.frac = 0 /\ ~Wanted.over) =>
          Wanted.num <= MaxInt32 /\ ScaledTo(Wanted.num)
    /\ (Scaled /\ (Wanted.frac # 0 \/ Wanted.over)) => NotAnInteger

\* C15 witness: the deployment web, of one replica, scaled up to three
C15_Witness ==
    /\ ScaledExisting /\ Wanted = Float(3, 0)
    /\ ScaledTo(3)
    /\ apiCalls[2].opts = [Replicas |-> 3]

(* C16 (as stated): every execution of every handler issues at most one   *)
(* Kubernetes API request.                                                 *)
C16_OneRequest == pc = "served" => Len(apiCalls) <= 1

\* the requests of a scale_deployment call: none, a Get, or a Get that the server
\* answered followed by one Update of the same deployment
GetThenUpdate ==
    /\ Len(apiCalls) <= 2
    /\ Len(apiCalls) >= 1 => apiCalls[1].verb = "get"
    /\ Len(apiCalls) = 2 =>
          /\ request.oracle.api1
          /\ apiCalls[2].verb = "update"
          /\ \A f \in {"kind", "namespace", "name"} : apiCalls[2][f] = apiCalls[1][f]

(* C16 (amended): every execution of every handler but scale_deployment    *)
(* issues at most one Kubernetes API request; scale_deployment issues at   *)
(* most two, a Get and, when the Get succeeded, one Update of the          *)
(* deployment it got. No handler issues a request when it refuses the      *)
(* arguments or gets no client.                                            *)
C16_OneRequestButScale ==
    pc = "served" =>
        /\ request.tool # "scale_deployment" => Len(apiCalls) <= 1
        /\ request.tool = "scale_deployment" => GetThenUpdate
        /\ (~Accepted(request.tool, request.args) \/ ~request.oracle.client) =>
              apiCalls = <<>>

\* C16 witness: a scale_deployment call that has issued its Get and its Update
C16_Witness ==
    /\ pc = "served" /\ request.tool = "scale_deployment"
    /\ Len(apiCalls) = 2
    /\ apiCalls[1].verb = "get" /\ apiCalls[2].verb = "update"

\* a delete_pod handler runs, with a client and a server that answers, on a pod
\* that exists
DeletesExistingPod ==
    /\ pc = "serve" /\ pc' = "served"
    /\ request'.tool \in DeleteTools
    /\ request'.oracle.client /\ request'.oracle.api1
    /\ \A p \in {"namespace", "name"} :
          p \in DOMAIN request'.args /\ request'.args[p].type = "string"
    /\ Found(cluster, request'.tool, request'.args) # {}

\* the grace period of the request is a number
NumericGracePeriod ==
    /\ "gracePeriodSeconds" \in DOMAIN request'.args
    /\ request'.args["gracePeriodSeconds"].type \in {"float64", "int64"}

\* the pod is deleted by one Delete request with the grace period g (a set: empty
\* when none is set) and the result is not an error
DeletedWith(g) ==
    /\ result'.result = "text" /\ result'.err = <<>>
    /\ Len(apiCalls') = 1 /\ apiCalls'[1].verb = "delete"
    /\ apiCalls'[1].opts.GracePeriodSeconds = g
    /\ Found(cluster', request'.tool, request'.args) = {}

(* C17: delete_pod with a numeric gracePeriodSeconds n > 0 deletes the pod *)
(* with DeleteOptions.GracePeriodSeconds = n and returns a non-error       *)
(* result; without gracePeriodSeconds, or with n <= 0, it deletes the pod  *)
(* with no grace period set.                                               *)
C17_GracePeriod ==
    [][DeletesExistingPod =>
        /\ (NumericGracePeriod /\ Positive(request'.args["gracePeriodSeconds"])) =>
              DeletedWith({request'.args["gracePeriodSeconds"].num})
        /\ (NumericGracePeriod /\ ~Positive(request'.args["gracePeriodSeconds"])) =>
              DeletedWith({})
        /\ "gracePeriodSeconds" \notin DOMAIN request'.args => DeletedWith({})]_vars

ParamCalled(op) == pc = "called" /\ ret.op = op
Asked == ret.names[1]
AskedType == ret.names[2]

(* C19: RequiredParam[T](request, name) returns the value and no error     *)
(* only when the argument is present, of type T and not the zero value of  *)
(* T; the error contains "missing required parameter" when the argument is *)
(* absent or the zero value of T, and "is not of type" when it is present  *)
(* with another type.                                                      *)
C19_RequiredParam ==
    ParamCalled("RequiredParam") =>
        LET a == request.args
            present == Asked \in DOMAIN a
            valid == present /\ a[Asked].type = AskedType /\ a[Asked] # Zero(AskedType)
        IN /\ result.err = <<>> <=> valid
           /\ valid => result.value = a[Asked]
           /\ (~present \/ a[Asked] = Zero(AskedType)) =>
                 "missing required parameter: " \in Range(result.err)
           /\ (present /\ a[Asked].type # AskedType) =>
                 " is not of type " \in Range(result.err)

\* C19 witness: RequiredParam[string] of an argument that is the empty string
C19_Witness ==
    /\ ParamCalled("RequiredParam") /\ AskedType = "string"
    /\ Asked \in DOMAIN request.args /\ request.args[Asked] = Str("")
    /\ result.err = <<"missing required parameter: ", Asked>>

\* what C20 says of OptionalParamOK[T](request, p) for the arguments a
Optional(a, p, T) ==
    IF p \notin DOMAIN a THEN [value |-> Zero(T), ok |-> FALSE, err |-> <<>>]
    ELSE IF a[p].type = T THEN [value |-> a[p], ok |-> TRUE, err |-> <<>>]
    ELSE [value |-> Zero(T), ok |-> TRUE,
          err |-> <<"parameter ", p, " is not of type ", T, ", is ", a[p].type>>]

(* C20: OptionalParam[T] and OptionalParamOK[T] return the zero value of T *)
(* and no error for an absent argument (ok = false), the value and no      *)
(* error for an argument of type T (ok = true), and the zero value of T    *)
(* with the error "parameter <name> is not of type <T>, is <actual>" for   *)
(* an argument of another type (ok = true).                                *)
C20_OptionalParam ==
    /\ ParamCalled("OptionalParamOK") =>
          result = Optional(request.args, Asked, AskedType)
    /\ ParamCalled("OptionalParam") =>
          /\ DOMAIN result = {"value", "err"}
          /\ result.value = Optional(request.args, Asked, AskedType).value
          /\ result.err = Optional(request.args, Asked, AskedType).err

\* C20 witness: OptionalParamOK[string] of an argument that is a bool
C20_Witness ==
    /\ ParamCalled("OptionalParamOK") /\ AskedType = "string" /\ Asked = "myParam"
    /\ Asked \in DOMAIN request.args /\ request.args[Asked] = Bool(TRUE)
    /\ result = Param(Str(""), TRUE,
                      <<"parameter ", "myParam", " is not of type ", "string", ", is ", "bool">>)

(* C21: after any sequence of AddToolset, EnableToolset and EnableToolsets *)
(* calls, for every toolset stored in the group IsEnabled(name) is true    *)
(* exactly when the stored toolset's Enabled flag is true, that is, when   *)
(* ToolsetGroup.RegisterTools registers its tools.                         *)
C21_IsEnabledAgreesWithRegistration ==
    \A n \in DOMAIN tg.Toolsets :
        IsEnabled(tg, heap, n) <=> heap[tg.Toolsets[n]].Enabled

(* C22: an EnableToolsets call that returns an error leaves the Enabled    *)
(* flag of every toolset and everythingOn as they were before the call.    *)
C22_EnableToolsetsErrorChangesNothing ==
    [][(ret'.op = "EnableToolsets" /\ ret'.err) =>
          /\ tg'.everythingOn = tg.everythingOn
          /\ \A p \in DOMAIN heap : heap'[p].Enabled = heap[p].Enabled]_vars

(* C23: no operation clears everythingOn or resets the Enabled flag of a  *)
(* toolset object, and once everythingOn is set every EnableToolsets call  *)
(* that returns nil, the empty list included, leaves every toolset stored  *)
(* in the group Enabled.                                                   *)
C23_EnablingIsMonotone ==
    [][/\ tg.everythingOn => tg'.everythingOn
       /\ \A p \in DOMAIN heap : heap[p].Enabled => heap'[p].Enabled
       /\ (tg.everythingOn /\ ret'.op = "EnableToolsets" /\ ~ret'.err) =>
             AllEnabled']_vars

\* C23 witness: with everythingOn set by an earlier call, EnableToolsets of the
\* empty list has returned nil on a group of two toolsets, both Enabled
C23_Witness ==
    /\ tg.everythingOn
    /\ ret.op = "EnableToolsets" /\ ret.names = <<>> /\ ~ret.err
    /\ Cardinality(InGroup) = 2
    /\ AllEnabled

\* the tools that change the cluster
Mutating == {"delete_pod", "scale_deployment"}

(* C24: in the tool lists the direct-list InitToolsets gives the          *)
(* k8s_resources toolset, read tools and write tools are disjoint and the  *)
(* mutating tools delete_pod and scale_deployment are only among the write *)
(* tools, so that in read-only mode no mutating tool is registered.        *)
C24_MutatingToolsOnlyWrite ==
    pc \in {"initialized", "serving"} =>
        LET resources == heap[tg.Toolsets["k8s_resources"]]
        IN /\ Range(resources.readTools) \cap written[1] = {}
           /\ Mutating \cap Range(resources.readTools) = {}
           /\ Mutating \subseteq written[1]
           /\ (pc = "serving" /\ cfg.ReadOnly) => Range(calls) \cap Mutating = {}

\* scale_deployment runs
ScaleCall == pc = "serve" /\ pc' = "served" /\ request'.tool = "scale_deployment"

\* the call gets as far as a Get that succeeds: the arguments are accepted, there
\* is a client, the server answers and the deployment exists
GetSucceeds ==
    /\ Accepted(request'.tool, request'.args)
    /\ request'.oracle.client /\ request'.oracle.api1
    /\ Found(cluster, request'.tool, request'.args) # {}

\* the call has issued an Update
UpdateIssued == \E i \in DOMAIN apiCalls' : apiCalls'[i].verb = "update"

\* the cluster with the replica count of the deployment named replaced by the
\* requested value, and nothing else changed
Rescaled ==
    (cluster \ Found(cluster, request'.tool, request'.args))
        \cup {[x EXCEPT !.replicas = request'.args["replicas"].num] :
                 x \in Found(cluster, request'.tool, request'.args)}

(* C25: scale_deployment issues Update only after a successful Get of the  *)
(* same namespace and name; what it submits is the object Get returned     *)
(* with only the replica count replaced by the requested value; when the   *)
(* validation or the Get fails no Update is issued and the stored          *)
(* deployment is unchanged.                                                *)
C25_ReadModifyWrite ==
    [][ScaleCall =>
        /\ UpdateIssued <=> GetSucceeds
        /\ UpdateIssued =>
              /\ Len(apiCalls') = 2
              /\ apiCalls'[1].verb = "get" /\ apiCalls'[2].verb = "update"
              /\ \A i \in {1, 2} :
                    /\ apiCalls'[i].kind = "deployment"
                    /\ apiCalls'[i].namespace = request'.args["namespace"].str
                    /\ apiCalls'[i].name = request'.args["name"].str
              /\ apiCalls'[2].opts = [Replicas |-> request'.args["replicas"].num]
              /\ IF request'.oracle.api2
                 THEN cluster' = Rescaled /\ result'.text[2] \subseteq cluster'
                 ELSE cluster' = cluster
        /\ ~UpdateIssued => cluster' = cluster]_vars

\* C25 witness: the deployment web scaled to two replicas by a Get and an Update,
\* the other objects of the cluster as they were
C25_Witness ==
    /\ pc = "served" /\ request.tool = "scale_deployment" /\ Served
    /\ Len(apiCalls) = 2 /\ apiCalls[2].opts = [Replicas |-> 2]
    /\ Object("deployment", DefaultNamespace, "web", 2) \in cluster
    /\ cluster \ {Object("deployment", DefaultNamespace, "web", 2)}
          = {x \in InitialObjects : x.kind \notin {"deployment", "pod"}}
               \cup {x \in cluster : x.kind = "pod"}

====
